---- MODULE Spec2Model ----
(***************************************************************************)
(* State-machine model of ossify's storage client (src/src/storage.rs) and *)
(* its path helpers (src/src/storage/utils/path.rs).                       *)
(*                                                                         *)
(* Strings are sequences of one-character strings, so that prefix          *)
(* stripping, trimming and joining are computed character by character as  *)
(* the Rust code computes them.  The asynchronous recursion of the client  *)
(* is an explicit call stack: every backend or filesystem call that the    *)
(* code awaits is one step, and a `?` is the step that pops the frame      *)
(* when the awaited call returned an error.                                *)
(***************************************************************************)
EXTENDS Integers, Sequences, FiniteSets, TLC

VARIABLES
    cmd,      \* the invoked operation and its arguments
    remote,   \* backend state: set of entries [path, mode, len, chunks]
    local,    \* local filesystem: set of nodes [path, mode, len, src]
    order,    \* the order in which a listing / read_dir returns siblings
    lists_self, \* whether the backend lists a directory among its own entries
    stack,    \* call stack of the running command, innermost frame last
    ret,      \* value returned by the frame that was popped last
    out,      \* lines printed to standard output, in order
    calls,    \* backend and filesystem calls issued so far, in order
    writer,   \* state of the backend writer opened by upload_file_streaming
    fault,    \* the injected failure, when one occurred
    result    \* the command's result once it has returned

vars == <<cmd, remote, local, order, lists_self, stack, ret, out, calls, writer, fault, result>>

---------------------------------------------------------------------------
(* Bounds of the model.                                                    *)

\* longest string drawn as an input of the pure path functions
MaxLen == 4
\* deepest nesting of the generated remote and local trees
MaxDepth == 3
\* short reads the local file reader may return during one upload
MaxShortReads == 1
\* frames the call stack may hold; a run that needs more stops there
MaxStack == 2 * MaxDepth + 2

---------------------------------------------------------------------------
(* Strings and the std::path operations the code relies on.                *)

None == [some |-> FALSE]
Some(v) == [some |-> TRUE, v |-> v]
Ok(v) == [ok |-> TRUE, v |-> v]
Err(e) == [ok |-> FALSE, e |-> e]
Unit == <<>>
Running == [running |-> TRUE]

Sep == "/"

StartsWith(s, p) == Len(p) <= Len(s) /\ SubSeq(s, 1, Len(p)) = p

\* str::strip_prefix: Some(rest) when s starts with p, character-wise
strip_prefix(s, p) ==
    IF StartsWith(s, p) THEN Some(SubSeq(s, Len(p) + 1, Len(s))) ELSE None

unwrap_or(o, d) == IF o.some THEN o.v ELSE d

\* str::trim_start_matches('/'): drops every leading separator
RECURSIVE trim_start_matches(_)
trim_start_matches(s) ==
    IF s # <<>> /\ Head(s) = Sep THEN trim_start_matches(Tail(s)) ELSE s

\* Path::components without the root: the non-empty segments between separators
RECURSIVE SplitFrom(_, _, _)
SplitFrom(s, i, cur) ==
    IF i > Len(s) THEN (IF cur = <<>> THEN <<>> ELSE <<cur>>)
    ELSE IF s[i] = Sep
         THEN (IF cur = <<>> THEN <<>> ELSE <<cur>>) \o SplitFrom(s, i + 1, <<>>)
         ELSE SplitFrom(s, i + 1, Append(cur, s[i]))

Components(p) == SplitFrom(p, 1, <<>>)

IsAbsolute(p) == p # <<>> /\ Head(p) = Sep

\* Path::file_name: the last normal component, None for "" and for the root
file_name(p) ==
    LET c == Components(p)
    IN  IF c = <<>> THEN None ELSE Some(c[Len(c)])

\* Path::join (PathBuf::push): an absolute argument replaces the base,
\* otherwise a separator is added unless the base is empty or ends with one
PathJoin(base, rel) ==
    IF IsAbsolute(rel) THEN rel
    ELSE IF base = <<>> \/ base[Len(base)] = Sep THEN base \o rel
    ELSE base \o <<Sep>> \o rel

RECURSIVE JoinSegs(_)
JoinSegs(c) ==
    IF c = <<>> THEN <<>>
    ELSE IF Len(c) = 1 THEN c[1]
    ELSE c[1] \o <<Sep>> \o JoinSegs(Tail(c))

\* the filesystem's view of a path: separators collapsed, none trailing
Canon(p) == (IF IsAbsolute(p) THEN <<Sep>> ELSE <<>>) \o JoinSegs(Components(p))

\* Path::parent: the path without its last component
parent(p) ==
    LET c == Components(p)
    IN  IF c = <<>> THEN None
        ELSE Some((IF IsAbsolute(p) THEN <<Sep>> ELSE <<>>)
                  \o JoinSegs(SubSeq(c, 1, Len(c) - 1)))

---------------------------------------------------------------------------
(* src/src/storage/utils/path.rs                                           *)

build_remote_path(base, name) == PathJoin(base, name)

get_relative_path(full_path, base_path) ==
    IF full_path = base_path
    THEN LET f == file_name(full_path) IN IF f.some THEN f.v ELSE <<>>
    ELSE trim_start_matches(unwrap_or(strip_prefix(full_path, base_path), full_path))

normalize_path(path) ==
    IF StartsWith(path, <<Sep>>) THEN Tail(path) ELSE path

---------------------------------------------------------------------------
(* Inputs of the pure path functions: every string over a small alphabet   *)
(* up to MaxLen characters, and the paths of the documented examples.      *)

Alphabet == {Sep, "a", "b"}

RECURSIVE StringsUpTo(_)
StringsUpTo(n) ==
    IF n = 0 THEN {<<>>}
    ELSE LET S == StringsUpTo(n - 1)
         IN  S \cup {Append(s, c) : s \in {t \in S : Len(t) = n - 1}, c \in Alphabet}

ExampleFull == <<"/", "a", "/", "b", "/", "c", ".", "t", "x", "t">>
ExampleBases == {ExampleFull, <<"/", "a", "/">>, <<"/", "a">>, <<"/", "a", "/", "b">>}

PathInputs == StringsUpTo(MaxLen) \cup {ExampleFull} \cup ExampleBases

---------------------------------------------------------------------------
(* Size formatting (format_size) and the long listing line (FileInfo).     *)

BUFFER_SIZE == 8192
THRESHOLD == 1024
UNITS == <<"B", "K", "M", "G", "T">>

U64_BITS == 64
F64_MANTISSA_BITS == 53

RECURSIVE Pow(_, _)
Pow(b, e) == IF e = 0 THEN 1 ELSE b * Pow(b, e - 1)

\* A u64 is the sequence of its base-THRESHOLD digits, least significant
\* first and without leading zeros (0 is the empty sequence): a division by
\* THRESHOLD is a shift by one digit, and no intermediate value leaves the
\* integers of the checker.  The same sequences carry the value of an f64
\* that is a whole number.
RECURSIVE U64(_)
U64(n) == IF n = 0 THEN <<>> ELSE <<n % THRESHOLD>> \o U64(n \div THRESHOLD)

RECURSIVE Value(_)
Value(d) == IF d = <<>> THEN 0 ELSE d[1] + THRESHOLD * Value(Tail(d))

RECURSIVE Norm(_)
Norm(d) ==
    IF d # <<>> /\ d[Len(d)] = 0 THEN Norm(SubSeq(d, 1, Len(d) - 1)) ELSE d

RECURSIVE LeqSameLen(_, _)
LeqSameLen(x, y) ==
    IF x = <<>> THEN TRUE
    ELSE LET i == Len(x)
         IN  \/ x[i] < y[i]
             \/ x[i] = y[i] /\ LeqSameLen(SubSeq(x, 1, i - 1), SubSeq(y, 1, i - 1))

\* x <= y
Leq(x, y) ==
    LET nx == Norm(x)
        ny == Norm(y)
    IN  Len(nx) < Len(ny) \/ (Len(nx) = Len(ny) /\ LeqSameLen(nx, ny))

\* d + c * THRESHOLD^0, the carry running up the digits
RECURSIVE Inc(_, _)
Inc(d, c) ==
    IF c = 0 THEN d
    ELSE IF d = <<>> THEN <<c>>
    ELSE LET v == d[1] + c
         IN  <<v % THRESHOLD>> \o Inc(Tail(d), v \div THRESHOLD)

\* d * c + carry for a small c; the result has one digit more than d
RECURSIVE MulSmall(_, _, _)
MulSmall(d, c, carry) ==
    IF d = <<>> THEN <<carry>>
    ELSE LET v == d[1] * c + carry
         IN  <<v % THRESHOLD>> \o MulSmall(Tail(d), c, v \div THRESHOLD)

RECURSIVE Bits(_)
Bits(x) == IF x = 0 THEN 0 ELSE 1 + Bits(x \div 2)

BitLen(d) ==
    IF d = <<>> THEN 0 ELSE (Len(d) - 1) * Bits(THRESHOLD - 1) + Bits(d[Len(d)])

\* size as f64: the nearest value with F64_MANTISSA_BITS significant bits,
\* ties to the even mantissa.  The bits dropped (at most U64_BITS -
\* F64_MANTISSA_BITS) lie in the two lowest digits.
as_f64(size) ==
    LET drop == BitLen(size) - F64_MANTISSA_BITS
    IN  IF drop <= 0 THEN size
        ELSE LET low  == size[1] + THRESHOLD * size[2]
                 q    == Pow(2, drop)
                 r    == low % q
                 kept == low \div q
                 up   == 2 * r > q \/ (2 * r = q /\ kept % 2 = 1)
                 new  == (kept + (IF up THEN 1 ELSE 0)) * q
             IN  <<new % THRESHOLD, (new \div THRESHOLD) % THRESHOLD>>
                 \o Inc(SubSeq(size, 3, Len(size)), new \div (THRESHOLD * THRESHOLD))

\* the loop of format_size: the number of divisions by THRESHOLD.  After k
\* divisions size_f is the digits above the k-th, and it is >= THRESHOLD
\* when two of them or more are left.
RECURSIVE UnitIndex(_, _)
UnitIndex(size_f, k) ==
    IF Len(size_f) - k >= 2 /\ k < Len(UNITS) - 1
    THEN UnitIndex(size_f, k + 1) ELSE k

\* RoundTenths with the digits after the first cut off instead of rounded
RoundTenths_truncate(size_f, k) ==
    Value(SubSeq(size_f, k + 1, Len(size_f))) * 10
        + MulSmall(SubSeq(size_f, 1, k), 10, 0)[k + 1]

\* format!("{:.1}"): tenths of size_f / THRESHOLD^k, ties to the even digit
RoundTenths(size_f, k) ==
    LET whole == Value(SubSeq(size_f, k + 1, Len(size_f)))
        m     == MulSmall(SubSeq(size_f, 1, k), 10, 0)
        q     == whole * 10 + m[k + 1]
        rest  == SubSeq(m, 1, k)
        half  == [i \in 1..k |-> IF i = k THEN THRESHOLD \div 2 ELSE 0]
    IN  IF rest = half THEN q + (q % 2)
        ELSE IF LeqSameLen(half, rest) THEN q + 1
        ELSE q

\* the printed size: integer part, optional decimal digit, unit
format_size(size) ==
    IF ~Leq(U64(THRESHOLD), size)
    THEN [int |-> Value(size), frac |-> None, unit |-> UNITS[1]]
    ELSE LET size_f == as_f64(size)
             k == UnitIndex(size_f, 0)
             t == RoundTenths(size_f, k)
         IN  [int |-> t \div 10, frac |-> Some(t % 10), unit |-> UNITS[k + 1]]

\* FileInfo::from_entry and its Display implementation
FileInfoLine(entry) ==
    [file_type |-> IF entry.mode = "DIR" THEN "DIR" ELSE "FILE",
     size_str  |-> IF entry.mode = "DIR" THEN "-" ELSE format_size(U64(entry.len)),
     modified  |-> "Unknown",
     path      |-> entry.path]

---------------------------------------------------------------------------
(* Trees.  A tree is a set of nodes [rel, mode]; rel is the sequence of    *)
(* names from the tree's root.  Names are one character long.  Every name  *)
(* may be absent, a file or (name "a" at any depth, name "b" at depth 1)   *)
(* a directory, down to MaxDepth levels.                                   *)

Names == <<"a", "b">>

RECURSIVE SubTrees(_, _)
SubTrees(prefix, d) ==
    IF d > MaxDepth THEN {{}}
    ELSE LET opts(n) ==
                 {{}} \cup {{[rel |-> Append(prefix, n), mode |-> "FILE"]}}
                 \cup (IF n = "a" \/ d = 1
                       THEN {{[rel |-> Append(prefix, n), mode |-> "DIR"]} \cup S :
                                 S \in SubTrees(Append(prefix, n), d + 1)}
                       ELSE {})
         IN  {A \cup B : A \in opts("a"), B \in opts("b")}

Trees == SubTrees(<<>>, 1)

\* file sizes of the generated trees, by depth and name
FileLen(rel) ==
    LET d == Len(rel)
        base == IF d = 1 THEN 100 ELSE IF d = 2 THEN 250 ELSE IF d = 3 THEN 4096 ELSE d
    IN  base + (IF rel[d] = "a" THEN 1 ELSE 0)

RECURSIVE RelString(_)
RelString(rel) ==
    IF rel = <<>> THEN <<>>
    ELSE IF Len(rel) = 1 THEN <<rel[1]>>
    ELSE <<rel[1], Sep>> \o RelString(Tail(rel))

---------------------------------------------------------------------------
(* The backend (opendal::Operator).  Keys of directories end with a        *)
(* separator.  A listing returns one level, in the backend's order.        *)

RemoteRoot == <<"r", Sep>>
MissingPath == <<"x", Sep>>

\* the key of a tree node under a root key
NodeKey(root, n) ==
    root \o RelString(n.rel) \o (IF n.mode = "DIR" THEN <<Sep>> ELSE <<>>)

RemoteOf(tree) ==
    {[path |-> RemoteRoot, mode |-> "DIR", len |-> 0]}
    \cup {[path |-> NodeKey(RemoteRoot, n), mode |-> n.mode,
           len |-> IF n.mode = "DIR" THEN 0 ELSE FileLen(n.rel)] : n \in tree}

\* the key without the separator that ends a directory's key
Stem(key) ==
    IF key # <<>> /\ key[Len(key)] = Sep THEN SubSeq(key, 1, Len(key) - 1) ELSE key

IsChildKey(key, dir) ==
    /\ key # dir
    /\ StartsWith(key, dir)
    /\ LET rest == SubSeq(Stem(key), Len(dir) + 1, Len(Stem(key)))
       IN  rest # <<>> /\ \A i \in 1..Len(rest) : rest[i] # Sep

LastName(key) == LET s == Stem(key) IN s[Len(s)]

Rank(ord, name) ==
    LET i == CHOOSE j \in 1..Len(Names) : Names[j] = name
    IN  IF ord = "fwd" THEN i ELSE Len(Names) + 1 - i

RECURSIVE InOrder(_, _)
InOrder(S, ord) ==
    IF S = {} THEN <<>>
    ELSE LET first == CHOOSE e \in S :
                          \A f \in S : Rank(ord, LastName(e.path)) <= Rank(ord, LastName(f.path))
         IN  <<first>> \o InOrder(S \ {first}, ord)

\* Operator::list on the current backend state: the immediate children,
\* and with them the listed directory itself on a backend that lists it
\* (an entry of mode DIR whose path is the listed path)
Listing(path) ==
    LET children == InOrder({e \in remote : IsChildKey(e.path, path)}, order)
        dirs == {e \in remote : e.path = path /\ e.mode = "DIR"}
        self == IF lists_self /\ dirs # {} THEN <<CHOOSE e \in dirs : TRUE>> ELSE <<>>
    IN  IF order = "fwd" THEN self \o children ELSE children \o self

Exists(path) == \E e \in remote : e.path = path

\* error kinds a backend call may fail with at any time
ErrKinds == {"PermissionDenied", "NetworkError"}

\* results Operator::list may give: the listing, or a failure; a backend may
\* report a path that does not exist as an empty listing or as NotFound
ListOutcomes(path) ==
    {Ok(Listing(path))} \cup {Err(k) : k \in ErrKinds}
    \cup (IF Exists(path) THEN {} ELSE {Err("NotFound")})

---------------------------------------------------------------------------
(* The call stack.                                                         *)

Top == stack[Len(stack)]
Fn(name, pc) == stack # <<>> /\ Top.fn = name /\ Top.pc = pc

\* the innermost frame returns v to its caller (or to the command line)
Return(v) ==
    /\ stack' = SubSeq(stack, 1, Len(stack) - 1)
    /\ ret' = v
    /\ result' = IF Len(stack) = 1 THEN v ELSE result

Goto(frame) == stack' = [stack EXCEPT ![Len(stack)] = frame] /\ UNCHANGED <<ret, result>>

\* call a function of the client: the caller waits at pc `at`
Call(at, frame) ==
    /\ Len(stack) < MaxStack
    /\ stack' = Append([stack EXCEPT ![Len(stack)] = [Top EXCEPT !.pc = at]], frame)
    /\ ret' = None
    /\ UNCHANGED result

\* a backend or filesystem call is issued and gives outcome r
Issue(name, arg, r) ==
    /\ calls' = Append(calls, [call |-> name, arg |-> arg])
    /\ fault' = IF r.ok THEN fault ELSE Some([call |-> name, arg |-> arg, e |-> r.e])

NoIssue == UNCHANGED <<calls, fault>>

---------------------------------------------------------------------------
(* list_directory, list_recursive, list_single_level, print_entry          *)

print_entry(entry, long) == IF long THEN FileInfoLine(entry) ELSE entry.path

list_directory ==
    /\ Fn("list_directory", "start")
    /\ Call("return",
            [fn |-> IF cmd.recursive THEN "list_recursive" ELSE "list_single_level",
             pc |-> "list", path |-> cmd.path, entries |-> <<>>, i |-> 1])
    /\ NoIssue
    /\ UNCHANGED <<cmd, remote, local, order, lists_self, out, writer>>

\* let entries = self.operator.list(path).await?;
ListCall(fn) ==
    /\ Fn(fn, "list")
    /\ \E r \in ListOutcomes(Top.path) :
          /\ Issue("list", Top.path, r)
          /\ IF r.ok
             THEN Goto([Top EXCEPT !.pc = "loop", !.entries = r.v, !.i = 1])
             ELSE Return(r)
    /\ UNCHANGED <<cmd, remote, local, order, lists_self, out, writer>>

list_recursive_list == ListCall("list_recursive")

\* list_recursive_loop without the recursion into directories
list_recursive_loop_flat ==
    /\ Fn("list_recursive", "loop")
    /\ IF Top.i > Len(Top.entries)
       THEN Return(Ok(Unit)) /\ UNCHANGED out
       ELSE /\ out' = Append(out, print_entry(Top.entries[Top.i], cmd.long))
            /\ Goto([Top EXCEPT !.i = @ + 1])
    /\ NoIssue
    /\ UNCHANGED <<cmd, remote, local, order, lists_self, writer>>

\* one iteration of the loop: print the entry, recurse into a directory
list_recursive_loop ==
    /\ Fn("list_recursive", "loop")
    /\ IF Top.i > Len(Top.entries)
       THEN Return(Ok(Unit)) /\ UNCHANGED out
       ELSE LET entry == Top.entries[Top.i]
            IN  /\ out' = Append(out, print_entry(entry, cmd.long))
                /\ IF entry.mode = "DIR"
                   THEN Call("await", [fn |-> "list_recursive", pc |-> "list",
                                       path |-> entry.path, entries |-> <<>>, i |-> 1])
                   ELSE Goto([Top EXCEPT !.i = @ + 1])
    /\ NoIssue
    /\ UNCHANGED <<cmd, remote, local, order, lists_self, writer>>

\* Box::pin(self.list_recursive(entry_path, long)).await?;
list_recursive_await ==
    /\ Fn("list_recursive", "await")
    /\ IF ret.ok THEN Goto([Top EXCEPT !.pc = "loop", !.i = @ + 1]) ELSE Return(ret)
    /\ NoIssue
    /\ UNCHANGED <<cmd, remote, local, order, lists_self, out, writer>>

list_single_level_list == ListCall("list_single_level")

list_single_level_loop ==
    /\ Fn("list_single_level", "loop")
    /\ IF Top.i > Len(Top.entries)
       THEN Return(Ok(Unit)) /\ UNCHANGED out
       ELSE /\ out' = Append(out, print_entry(Top.entries[Top.i], cmd.long))
            /\ Goto([Top EXCEPT !.i = @ + 1])
    /\ NoIssue
    /\ UNCHANGED <<cmd, remote, local, order, lists_self, writer>>

\* a function whose last expression is the awaited call returns its result
TailReturn(fn) ==
    /\ Fn(fn, "return")
    /\ Return(ret)
    /\ NoIssue
    /\ UNCHANGED <<cmd, remote, local, order, lists_self, out, writer>>

list_directory_return == TailReturn("list_directory")

---------------------------------------------------------------------------
(* disk_usage, calculate_total_usage, show_detailed_usage                  *)

UsageFrame(path) ==
    [fn |-> "calculate_total_usage", pc |-> "list", path |-> path, entries |-> <<>>,
     i |-> 1, total_size |-> 0, file_count |-> 0]

disk_usage ==
    /\ Fn("disk_usage", "start")
    /\ IF cmd.summary
       THEN Call("await", UsageFrame(cmd.path))
       ELSE Call("await_detail",
                 [fn |-> "show_detailed_usage", pc |-> "list", path |-> cmd.path,
                  entries |-> <<>>, i |-> 1])
    /\ NoIssue
    /\ UNCHANGED <<cmd, remote, local, order, lists_self, out, writer>>

\* let (total_size, total_files) = self.calculate_total_usage(path).await?;
\* followed by the two println! of the summary
disk_usage_summary ==
    /\ Fn("disk_usage", "await")
    /\ IF ret.ok
       THEN /\ out' = out \o <<[size |-> format_size(U64(ret.v[1])), path |-> cmd.path],
                               [total_files |-> ret.v[2]]>>
            /\ Return(Ok(Unit))
       ELSE Return(ret) /\ UNCHANGED out
    /\ NoIssue
    /\ UNCHANGED <<cmd, remote, local, order, lists_self, writer>>

\* self.show_detailed_usage(path).await?; Ok(())
disk_usage_detail ==
    /\ Fn("disk_usage", "await_detail")
    /\ Return(IF ret.ok THEN Ok(Unit) ELSE ret)
    /\ NoIssue
    /\ UNCHANGED <<cmd, remote, local, order, lists_self, out, writer>>

calculate_total_usage_list == ListCall("calculate_total_usage")

calculate_total_usage_loop ==
    /\ Fn("calculate_total_usage", "loop")
    /\ IF Top.i > Len(Top.entries)
       THEN Return(Ok(<<Top.total_size, Top.file_count>>))
       ELSE LET entry == Top.entries[Top.i]
            IN  IF entry.mode = "DIR"
                THEN Call("await", UsageFrame(entry.path))
                ELSE Goto([Top EXCEPT !.total_size = @ + entry.len,
                                      !.file_count = @ + 1,
                                      !.i = @ + 1])
    /\ NoIssue
    /\ UNCHANGED <<cmd, remote, local, order, lists_self, out, writer>>

\* calculate_total_usage_await that drops the file count of the subdirectory
calculate_total_usage_await_size_only ==
    /\ Fn("calculate_total_usage", "await")
    /\ IF ret.ok
       THEN Goto([Top EXCEPT !.pc = "loop", !.total_size = @ + ret.v[1], !.i = @ + 1])
       ELSE Return(ret)
    /\ NoIssue
    /\ UNCHANGED <<cmd, remote, local, order, lists_self, out, writer>>

\* let (dir_size, dir_files) = Box::pin(self.calculate_total_usage(..)).await?;
calculate_total_usage_await ==
    /\ Fn("calculate_total_usage", "await")
    /\ IF ret.ok
       THEN Goto([Top EXCEPT !.pc = "loop",
                             !.total_size = @ + ret.v[1],
                             !.file_count = @ + ret.v[2],
                             !.i = @ + 1])
       ELSE Return(ret)
    /\ NoIssue
    /\ UNCHANGED <<cmd, remote, local, order, lists_self, out, writer>>

show_detailed_usage_list == ListCall("show_detailed_usage")

\* show_detailed_usage printing a directory as it prints a file, from the
\* entry's own metadata
show_detailed_usage_loop_flat ==
    /\ Fn("show_detailed_usage", "loop")
    /\ IF Top.i > Len(Top.entries)
       THEN Return(Ok(Unit)) /\ UNCHANGED out
       ELSE /\ out' = Append(out, [size |-> format_size(U64(Top.entries[Top.i].len)),
                                   path |-> Top.entries[Top.i].path])
            /\ Goto([Top EXCEPT !.i = @ + 1])
    /\ NoIssue
    /\ UNCHANGED <<cmd, remote, local, order, lists_self, writer>>

show_detailed_usage_loop ==
    /\ Fn("show_detailed_usage", "loop")
    /\ IF Top.i > Len(Top.entries)
       THEN Return(Ok(Unit)) /\ UNCHANGED out
       ELSE LET entry == Top.entries[Top.i]
            IN  IF entry.mode = "DIR"
                THEN Call("await", UsageFrame(entry.path)) /\ UNCHANGED out
                ELSE /\ out' = Append(out, [size |-> format_size(U64(entry.len)),
                                            path |-> entry.path])
                     /\ Goto([Top EXCEPT !.i = @ + 1])
    /\ NoIssue
    /\ UNCHANGED <<cmd, remote, local, order, lists_self, writer>>

\* let (dir_size, _) = Box::pin(self.calculate_total_usage(entry_path)).await?;
show_detailed_usage_await ==
    /\ Fn("show_detailed_usage", "await")
    /\ IF ret.ok
       THEN /\ out' = Append(out, [size |-> format_size(U64(ret.v[1])),
                                   path |-> Top.entries[Top.i].path])
            /\ Goto([Top EXCEPT !.pc = "loop", !.i = @ + 1])
       ELSE Return(ret) /\ UNCHANGED out
    /\ NoIssue
    /\ UNCHANGED <<cmd, remote, local, order, lists_self, writer>>

---------------------------------------------------------------------------
(* The local filesystem (tokio::fs).  Nodes are keyed by canonical path.   *)

LocalNodes(p) == {n \in local : n.path = Canon(p)}
IsFile(p) == \E n \in LocalNodes(p) : n.mode = "FILE"
IsDir(p) == \E n \in LocalNodes(p) : n.mode = "DIR"
PathExists(p) == LocalNodes(p) # {}

\* the path and every ancestor of it, as canonical paths
Prefixes(p) ==
    LET c == Components(p)
    IN  {(IF IsAbsolute(p) THEN <<Sep>> ELSE <<>>) \o JoinSegs(SubSeq(c, 1, k)) :
             k \in 1..Len(c)}

\* the one failure injected into a local filesystem call
FsErrKinds == {"IoError"}

\* fs::create_dir_all: fails when a component exists as a file
CreateDirAllOutcomes(p) ==
    (IF \E q \in Prefixes(p) : IsFile(q) THEN {Err("NotADirectory")} ELSE {Ok(Unit)})
    \cup {Err(k) : k \in FsErrKinds}

AfterCreateDirAll(p) ==
    local \cup {[path |-> q, mode |-> "DIR", len |-> 0, src |-> <<>>] :
                    q \in {x \in Prefixes(p) : ~PathExists(x)}}

\* fs::write: creates or replaces the file; fails on a directory and when
\* the parent directory is missing
WriteOutcomes(p) ==
    (IF IsDir(p) THEN {Err("IsADirectory")}
     ELSE IF parent(p).some /\ parent(p).v # <<>> /\ ~IsDir(parent(p).v)
          THEN {Err("NotFound")}
          ELSE {Ok(Unit)})
    \cup {Err(k) : k \in FsErrKinds}

AfterWrite(p, data) ==
    {n \in local : n.path # Canon(p)}
    \cup {[path |-> Canon(p), mode |-> "FILE", len |-> data.len, src |-> data.src]}

\* Operator::read: the whole object
ReadOutcomes(key) ==
    (IF \E e \in remote : e.path = key /\ e.mode = "FILE"
     THEN {Ok([src |-> key, len |-> (CHOOSE e \in remote : e.path = key).len])}
     ELSE {Err("NotFound")})
    \cup {Err(k) : k \in ErrKinds}

---------------------------------------------------------------------------
(* download_files, download_recursive                                      *)

DownloadFrame(remote_path, local_path) ==
    [fn |-> "download_recursive", pc |-> "list", path |-> remote_path,
     local_path |-> local_path, entries |-> <<>>, i |-> 1, data |-> None]

\* fs::create_dir_all(local_path).await?; self.download_recursive(..).await
download_files ==
    /\ Fn("download_files", "start")
    /\ \E r \in CreateDirAllOutcomes(cmd.local) :
          /\ Issue("fs::create_dir_all", cmd.local, r)
          /\ IF r.ok
             THEN /\ local' = AfterCreateDirAll(cmd.local)
                  /\ Call("return", DownloadFrame(cmd.path, cmd.local))
             ELSE Return(r) /\ UNCHANGED local
    /\ UNCHANGED <<cmd, remote, order, lists_self, out, writer>>

download_files_return == TailReturn("download_files")

download_recursive_list == ListCall("download_recursive")

\* remote_file_path.strip_prefix(remote_path).unwrap_or(remote_file_path),
\* with remote_path the path this call lists
relative_path(frame) ==
    LET remote_file_path == frame.entries[frame.i].path
    IN  unwrap_or(strip_prefix(remote_file_path, frame.path), remote_file_path)

local_file_path(frame) == PathJoin(frame.local_path, relative_path(frame))

\* the head of one loop iteration: the directory of the entry is created,
\* and a directory entry is descended into
download_recursive_loop ==
    /\ Fn("download_recursive", "loop")
    /\ IF Top.i > Len(Top.entries)
       THEN Return(Ok(Unit)) /\ NoIssue /\ UNCHANGED local
       ELSE LET entry == Top.entries[Top.i]
                lfp == local_file_path(Top)
            IN  IF entry.mode = "DIR"
                THEN \E r \in CreateDirAllOutcomes(lfp) :
                        /\ Issue("fs::create_dir_all", lfp, r)
                        /\ IF r.ok
                           THEN /\ local' = AfterCreateDirAll(lfp)
                                /\ Call("await", DownloadFrame(entry.path, Top.local_path))
                           ELSE Return(r) /\ UNCHANGED local
                ELSE IF parent(lfp).some
                THEN \E r \in CreateDirAllOutcomes(parent(lfp).v) :
                        /\ Issue("fs::create_dir_all", parent(lfp).v, r)
                        /\ IF r.ok
                           THEN /\ local' = AfterCreateDirAll(parent(lfp).v)
                                /\ Goto([Top EXCEPT !.pc = "read"])
                           ELSE Return(r) /\ UNCHANGED local
                ELSE Goto([Top EXCEPT !.pc = "read"]) /\ NoIssue /\ UNCHANGED local
    /\ UNCHANGED <<cmd, remote, order, lists_self, out, writer>>

\* Box::pin(self.download_recursive(remote_file_path, local_path)).await?;
download_recursive_await ==
    /\ Fn("download_recursive", "await")
    /\ IF ret.ok THEN Goto([Top EXCEPT !.pc = "loop", !.i = @ + 1]) ELSE Return(ret)
    /\ NoIssue
    /\ UNCHANGED <<cmd, remote, local, order, lists_self, out, writer>>

\* let data = self.operator.read(remote_file_path).await?;
download_recursive_read ==
    /\ Fn("download_recursive", "read")
    /\ LET key == Top.entries[Top.i].path
       IN  \E r \in ReadOutcomes(key) :
              /\ Issue("read", key, r)
              /\ IF r.ok THEN Goto([Top EXCEPT !.pc = "write", !.data = Some(r.v)])
                 ELSE Return(r)
    /\ UNCHANGED <<cmd, remote, local, order, lists_self, out, writer>>

\* fs::write(&local_file_path, data.to_vec()).await?; println!("Downloaded: ..")
download_recursive_write ==
    /\ Fn("download_recursive", "write")
    /\ LET lfp == local_file_path(Top)
           data == Top.data.v
       IN  \E r \in WriteOutcomes(lfp) :
              /\ Issue("fs::write", [path |-> lfp, src |-> data.src], r)
              /\ IF r.ok
                 THEN /\ local' = AfterWrite(lfp, data)
                      /\ out' = Append(out, [downloaded |-> data.src, to |-> lfp])
                      /\ Goto([Top EXCEPT !.pc = "loop", !.i = @ + 1, !.data = None])
                 ELSE Return(r) /\ UNCHANGED <<local, out>>
    /\ UNCHANGED <<cmd, remote, order, lists_self, writer>>

---------------------------------------------------------------------------
(* upload_files, upload_recursive, upload_file_streaming                   *)

\* fs::read_dir and next_entry: the children of a directory, each with the
\* path entry.path() gives (the directory's path joined with the name)
ReadDir(dir) ==
    LET kids == InOrder({n \in local : IsChildKey(n.path, Canon(dir) \o <<Sep>>)}, order)
    IN  [k \in 1..Len(kids) |-> PathJoin(dir, <<LastName(kids[k].path)>>)]

ReadDirOutcomes(dir) ==
    (IF IsDir(dir) THEN {Ok(ReadDir(dir))} ELSE {Err("NotADirectory")})
    \cup {Err(k) : k \in FsErrKinds}

OpenOutcomes(p) ==
    (IF PathExists(p) THEN {Ok(Unit)} ELSE {Err("NotFound")})
    \cup {Err(k) : k \in FsErrKinds}

FileSizeOf(p) == (CHOOSE n \in local : n.path = Canon(p)).len

\* AsyncReadExt::read into the 8 KiB buffer: 0 at the end of the file, else
\* up to BUFFER_SIZE bytes; a read may be short and fill half the buffer
ShortRead == BUFFER_SIZE \div 2

ReadChunkOutcomes(frame) ==
    LET left == frame.file_size - frame.pos
        full == IF left < BUFFER_SIZE THEN left ELSE BUFFER_SIZE
    IN  {Ok(full)}
        \cup (IF full > ShortRead /\ frame.short < MaxShortReads THEN {Ok(ShortRead)} ELSE {})
        \cup {Err(k) : k \in FsErrKinds}

BackendOutcomes == {Ok(Unit)} \cup {Err(k) : k \in ErrKinds}

StreamFrame(local_path, remote_path) ==
    [fn |-> "upload_file_streaming", pc |-> "open", local_path |-> local_path,
     remote_path |-> remote_path, file_size |-> 0, total_bytes |-> 0,
     pos |-> 0, short |-> 0, bytes_read |-> 0]

UploadFrame(local_path, remote_path) ==
    [fn |-> "upload_recursive", pc |-> "read_dir", local_path |-> local_path,
     remote_path |-> remote_path, entries |-> <<>>, i |-> 1]

\* the three failures of the pre-condition checks of upload_files
ErrLocalMissing == "Local path cannot exits"
ErrRemoteMissing == "Remote path does not exits!"
ErrIllegal == "Local path is illegal"

\* upload_files that asks the backend for the remote path before it
\* looks at the local path
upload_files_remote_first ==
    /\ Fn("upload_files", "start")
    /\ calls' = calls \o <<[call |-> "exists", arg |-> cmd.remote],
                           [call |-> "fs::metadata", arg |-> cmd.local]>>
    /\ UNCHANGED fault
    /\ IF ~PathExists(cmd.local)
       THEN Return(Err(ErrLocalMissing))
       ELSE Goto([Top EXCEPT !.pc = "exists"])
    /\ UNCHANGED <<cmd, remote, local, order, lists_self, out, writer>>

\* let path = Path::new(local_path); if !path.exists() { return Err(..) }
upload_files ==
    /\ Fn("upload_files", "start")
    /\ Issue("fs::metadata", cmd.local, Ok(Unit))
    /\ IF ~PathExists(cmd.local)
       THEN Return(Err(ErrLocalMissing))
       ELSE Goto([Top EXCEPT !.pc = "exists"])
    /\ UNCHANGED <<cmd, remote, local, order, lists_self, out, writer>>

\* upload_files_dispatch that rejects an illegal combination before it
\* looks at the answer of the existence check
upload_files_dispatch_combination_first ==
    /\ Fn("upload_files", "exists")
    /\ \E r \in {Ok(Exists(cmd.remote))} \cup {Err(k) : k \in ErrKinds} :
          /\ Issue("exists", cmd.remote, r)
          /\ IF ~r.ok THEN Return(r)
             ELSE IF ~((IsFile(cmd.local) /\ ~cmd.recursive) \/ (IsDir(cmd.local) /\ cmd.recursive))
             THEN Return(Err(ErrIllegal))
             ELSE IF ~r.v THEN Return(Err(ErrRemoteMissing))
             ELSE IF IsFile(cmd.local)
             THEN Call("await",
                       StreamFrame(cmd.local,
                                   PathJoin(cmd.remote,
                                            unwrap_or(file_name(cmd.local), cmd.local))))
             ELSE Call("await", UploadFrame(cmd.local, cmd.remote))
    /\ UNCHANGED <<cmd, remote, local, order, lists_self, out, writer>>

\* let remote_path_exist = self.operator.exists(remote_path).await?;
\* and the if / else-if chain that follows it
upload_files_dispatch ==
    /\ Fn("upload_files", "exists")
    /\ \E r \in {Ok(Exists(cmd.remote))} \cup {Err(k) : k \in ErrKinds} :
          /\ Issue("exists", cmd.remote, r)
          /\ IF ~r.ok THEN Return(r)
             ELSE IF ~r.v THEN Return(Err(ErrRemoteMissing))
             ELSE IF IsFile(cmd.local) /\ ~cmd.recursive
             THEN Call("await",
                       StreamFrame(cmd.local,
                                   PathJoin(cmd.remote,
                                            unwrap_or(file_name(cmd.local), cmd.local))))
             ELSE IF IsDir(cmd.local) /\ cmd.recursive
             THEN Call("await", UploadFrame(cmd.local, cmd.remote))
             ELSE Return(Err(ErrIllegal))
    /\ UNCHANGED <<cmd, remote, local, order, lists_self, out, writer>>

\* self.upload_..(..).await?; Ok(())
upload_files_await ==
    /\ Fn("upload_files", "await")
    /\ Return(IF ret.ok THEN Ok(Unit) ELSE ret)
    /\ NoIssue
    /\ UNCHANGED <<cmd, remote, local, order, lists_self, out, writer>>

\* let mut entries = fs::read_dir(local_path).await.with_context(..)?;
upload_recursive_read_dir ==
    /\ Fn("upload_recursive", "read_dir")
    /\ \E r \in ReadDirOutcomes(Top.local_path) :
          /\ Issue("fs::read_dir", Top.local_path, r)
          /\ IF r.ok THEN Goto([Top EXCEPT !.pc = "loop", !.entries = r.v, !.i = 1])
             ELSE Return(r)
    /\ UNCHANGED <<cmd, remote, local, order, lists_self, out, writer>>

\* the remote path of a child: remote_path / file name of local_path / name
remote_file_path(frame, child) ==
    LET relative == unwrap_or(file_name(frame.local_path), frame.local_path)
        name == unwrap_or(file_name(child), child)
    IN  PathJoin(PathJoin(frame.remote_path, relative), name)

\* while let Some(entry) = entries.next_entry().await? { .. }
upload_recursive_loop ==
    /\ Fn("upload_recursive", "loop")
    /\ \E r \in {Ok(Unit)} \cup {Err(k) : k \in FsErrKinds} :
          /\ Issue("next_entry", Top.local_path, r)
          /\ IF ~r.ok THEN Return(r)
             ELSE IF Top.i > Len(Top.entries) THEN Return(Ok(Unit))
             ELSE LET child == Top.entries[Top.i]
                  IN  IF IsDir(child)
                      THEN Call("await", UploadFrame(child, remote_file_path(Top, child)))
                      ELSE Call("await", StreamFrame(child, remote_file_path(Top, child)))
    /\ UNCHANGED <<cmd, remote, local, order, lists_self, out, writer>>

\* upload_recursive_await that goes on with the next entry after a failure
upload_recursive_await_continue ==
    /\ Fn("upload_recursive", "await")
    /\ Goto([Top EXCEPT !.pc = "loop", !.i = @ + 1])
    /\ NoIssue
    /\ UNCHANGED <<cmd, remote, local, order, lists_self, out, writer>>

\* Box::pin(self.upload_recursive(..)).await?; / self.upload_file_streaming(..).await?;
upload_recursive_await ==
    /\ Fn("upload_recursive", "await")
    /\ IF ret.ok THEN Goto([Top EXCEPT !.pc = "loop", !.i = @ + 1]) ELSE Return(ret)
    /\ NoIssue
    /\ UNCHANGED <<cmd, remote, local, order, lists_self, out, writer>>

\* let file = File::open(local_path).await.with_context(..)?;
upload_file_streaming_open ==
    /\ Fn("upload_file_streaming", "open")
    /\ \E r \in OpenOutcomes(Top.local_path) :
          /\ Issue("File::open", Top.local_path, r)
          /\ IF r.ok THEN Goto([Top EXCEPT !.pc = "metadata"]) ELSE Return(r)
    /\ UNCHANGED <<cmd, remote, local, order, lists_self, out, writer>>

\* let file_size = file.metadata().await?.len();
upload_file_streaming_metadata ==
    /\ Fn("upload_file_streaming", "metadata")
    /\ \E r \in {Ok(FileSizeOf(Top.local_path))} \cup {Err(k) : k \in FsErrKinds} :
          /\ Issue("File::metadata", Top.local_path, r)
          /\ IF r.ok THEN Goto([Top EXCEPT !.pc = "writer", !.file_size = r.v])
             ELSE Return(r)
    /\ UNCHANGED <<cmd, remote, local, order, lists_self, out, writer>>

\* let mut writer = self.operator.writer(remote_path).await?;
upload_file_streaming_writer ==
    /\ Fn("upload_file_streaming", "writer")
    /\ \E r \in BackendOutcomes :
          /\ Issue("writer", Top.remote_path, r)
          /\ IF r.ok
             THEN /\ writer' = Some([path |-> Top.remote_path, chunks |-> <<>>,
                                     closed |-> FALSE])
                  /\ Goto([Top EXCEPT !.pc = "read"])
             ELSE Return(r) /\ UNCHANGED writer
    /\ UNCHANGED <<cmd, remote, local, order, lists_self, out>>

\* let bytes_read = reader.read(&mut buffer).await.with_context(..)?;
\* if bytes_read == 0 { break; }
upload_file_streaming_read ==
    /\ Fn("upload_file_streaming", "read")
    /\ \E r \in ReadChunkOutcomes(Top) :
          /\ Issue("read_chunk", Top.local_path, r)
          /\ IF ~r.ok THEN Return(r)
             ELSE IF r.v = 0 THEN Goto([Top EXCEPT !.pc = "close"])
             ELSE Goto([Top EXCEPT !.pc = "write", !.bytes_read = r.v,
                                   !.short = IF r.v = ShortRead /\ Top.file_size - Top.pos > ShortRead
                                             THEN @ + 1 ELSE @])
    /\ UNCHANGED <<cmd, remote, local, order, lists_self, out, writer>>

\* upload_file_streaming_write that writes the whole buffer, not the bytes read
upload_file_streaming_write_whole_buffer ==
    /\ Fn("upload_file_streaming", "write")
    /\ \E r \in BackendOutcomes :
          /\ Issue("write", [path |-> Top.remote_path, off |-> Top.pos,
                             len |-> BUFFER_SIZE], r)
          /\ IF r.ok
             THEN LET total == Top.total_bytes + Top.bytes_read
                  IN  /\ writer' = Some([writer.v EXCEPT
                                            !.chunks = Append(@, [off |-> Top.pos,
                                                                  len |-> BUFFER_SIZE])])
                      /\ out' = IF Top.file_size > 0 /\ total % (BUFFER_SIZE * 100) = 0
                                THEN Append(out, [uploading |-> Top.local_path,
                                                  progress |-> (total * 100) \div Top.file_size])
                                ELSE out
                      /\ Goto([Top EXCEPT !.pc = "read", !.total_bytes = total,
                                          !.pos = @ + Top.bytes_read])
             ELSE Return(r) /\ UNCHANGED <<writer, out>>
    /\ UNCHANGED <<cmd, remote, local, order, lists_self>>

\* writer.write(buffer[..bytes_read].to_vec()).await.with_context(..)?;
\* total_bytes += bytes_read; and the throttled progress line
upload_file_streaming_write ==
    /\ Fn("upload_file_streaming", "write")
    /\ \E r \in BackendOutcomes :
          /\ Issue("write", [path |-> Top.remote_path, off |-> Top.pos,
                             len |-> Top.bytes_read], r)
          /\ IF r.ok
             THEN LET total == Top.total_bytes + Top.bytes_read
                  IN  /\ writer' = Some([writer.v EXCEPT
                                            !.chunks = Append(@, [off |-> Top.pos,
                                                                  len |-> Top.bytes_read])])
                      /\ out' = IF Top.file_size > 0 /\ total % (BUFFER_SIZE * 100) = 0
                                THEN Append(out, [uploading |-> Top.local_path,
                                                  progress |-> (total * 100) \div Top.file_size])
                                ELSE out
                      /\ Goto([Top EXCEPT !.pc = "read", !.total_bytes = total,
                                          !.pos = @ + Top.bytes_read])
             ELSE Return(r) /\ UNCHANGED <<writer, out>>
    /\ UNCHANGED <<cmd, remote, local, order, lists_self>>

RECURSIVE SumChunks(_)
SumChunks(chunks) ==
    IF chunks = <<>> THEN 0 ELSE Head(chunks).len + SumChunks(Tail(chunks))

\* writer.close().await?; println!("Upload: .. ({} bytes)", total_bytes);
\* closing the writer is what makes the object exist on the backend
upload_file_streaming_close ==
    /\ Fn("upload_file_streaming", "close")
    /\ \E r \in BackendOutcomes :
          /\ Issue("close", Top.remote_path, r)
          /\ IF r.ok
             THEN /\ writer' = Some([writer.v EXCEPT !.closed = TRUE])
                  /\ remote' = {e \in remote : e.path # Top.remote_path}
                               \cup {[path |-> Top.remote_path, mode |-> "FILE",
                                      len |-> SumChunks(writer.v.chunks)]}
                  /\ out' = Append(out, [uploaded |-> Top.local_path,
                                         to |-> Top.remote_path, bytes |-> Top.total_bytes])
                  /\ Return(Ok(Unit))
             ELSE Return(r) /\ UNCHANGED <<writer, remote, out>>
    /\ UNCHANGED <<cmd, local, order, lists_self>>

---------------------------------------------------------------------------
(* Specifications.                                                         *)

Orders == {"fwd", "rev"}

Fresh ==
    /\ ret = None /\ out = <<>> /\ calls = <<>> /\ writer = None /\ fault = None
    /\ result = Running

Idle ==
    /\ remote = {} /\ local = {} /\ order = "fwd" /\ lists_self = FALSE
    /\ stack = <<>> /\ Fresh

InitPath ==
    /\ cmd \in {[op |-> "get_relative_path", full |-> f, base |-> b] :
                    f \in PathInputs, b \in PathInputs}
    /\ Idle

ApplyRelativePath ==
    /\ cmd.op = "get_relative_path"
    /\ result = Running
    /\ result' = Ok(get_relative_path(cmd.full, cmd.base))
    /\ UNCHANGED <<cmd, remote, local, order, lists_self, stack, ret, out, calls, writer, fault>>

NextPath == ApplyRelativePath

SpecPath == InitPath /\ [][NextPath]_vars

InitList ==
    /\ cmd \in {[op |-> "list_directory", path |-> p, long |-> l, recursive |-> r] :
                    p \in {RemoteRoot, MissingPath}, l \in BOOLEAN, r \in BOOLEAN}
    /\ remote \in {RemoteOf(t) : t \in Trees}
    /\ order \in Orders
    /\ lists_self = FALSE
    /\ local = {}
    /\ stack = <<[fn |-> "list_directory", pc |-> "start"]>>
    /\ Fresh

NextList ==
    \/ list_directory
    \/ list_recursive_list
    \/ list_recursive_loop
    \/ list_recursive_await
    \/ list_single_level_list
    \/ list_single_level_loop
    \/ list_directory_return

SpecList == InitList /\ [][NextList]_vars

InitUsage ==
    /\ cmd \in {[op |-> "disk_usage", path |-> p, summary |-> b] :
                    p \in {RemoteRoot, MissingPath}, b \in BOOLEAN}
    /\ remote \in {RemoteOf(t) : t \in Trees}
    /\ order \in Orders
    /\ lists_self = FALSE
    /\ local = {}
    /\ stack = <<[fn |-> "disk_usage", pc |-> "start"]>>
    /\ Fresh

NextUsage ==
    \/ disk_usage
    \/ disk_usage_summary
    \/ disk_usage_detail
    \/ calculate_total_usage_list
    \/ calculate_total_usage_loop
    \/ calculate_total_usage_await
    \/ show_detailed_usage_list
    \/ show_detailed_usage_loop
    \/ show_detailed_usage_await

SpecUsage == InitUsage /\ [][NextUsage]_vars

LocalDest == <<"l">>

InitDownload ==
    /\ cmd \in {[op |-> "download_files", path |-> p, local |-> LocalDest] :
                    p \in {RemoteRoot, MissingPath}}
    /\ remote \in {RemoteOf(t) : t \in Trees}
    /\ order \in Orders
    /\ lists_self = FALSE
    /\ local = {}
    /\ stack = <<[fn |-> "download_files", pc |-> "start"]>>
    /\ Fresh

NextDownload ==
    \/ download_files
    \/ download_files_return
    \/ download_recursive_list
    \/ download_recursive_loop
    \/ download_recursive_await
    \/ download_recursive_read
    \/ download_recursive_write

SpecDownload == InitDownload /\ [][NextDownload]_vars

LocalSource == <<"t">>
RemoteTarget == <<"d", Sep>>

\* a local directory LocalSource holding a generated tree
LocalOf(tree) ==
    {[path |-> LocalSource, mode |-> "DIR", len |-> 0, src |-> <<>>]}
    \cup {[path |-> LocalSource \o <<Sep>> \o RelString(n.rel), mode |-> n.mode,
           len |-> IF n.mode = "DIR" THEN 0 ELSE FileLen(n.rel), src |-> <<>>] : n \in tree}

LocalFile(size) == {[path |-> LocalSource, mode |-> "FILE", len |-> size, src |-> <<>>]}

RemoteStates == {{}, {[path |-> RemoteTarget, mode |-> "DIR", len |-> 0]}}

UploadCmds ==
    {[op |-> "upload_files", local |-> LocalSource, remote |-> RemoteTarget,
      recursive |-> r] : r \in BOOLEAN}

InitUpload ==
    /\ cmd \in UploadCmds
    /\ remote \in RemoteStates
    /\ local \in {{}} \cup {LocalFile(n) : n \in {0, 100}} \cup {LocalOf(t) : t \in Trees}
    /\ order \in Orders
    /\ lists_self = FALSE
    /\ stack = <<[fn |-> "upload_files", pc |-> "start"]>>
    /\ Fresh

NextUpload ==
    \/ upload_files
    \/ upload_files_dispatch
    \/ upload_files_await
    \/ upload_recursive_read_dir
    \/ upload_recursive_loop
    \/ upload_recursive_await
    \/ upload_file_streaming_open
    \/ upload_file_streaming_metadata
    \/ upload_file_streaming_writer
    \/ upload_file_streaming_read
    \/ upload_file_streaming_write
    \/ upload_file_streaming_close

SpecUpload == InitUpload /\ [][NextUpload]_vars

\* sizes of the single file of the streaming runs: empty, one byte, around
\* one and two buffers, and one hundred full buffers
StreamSizes ==
    {0, 1, BUFFER_SIZE - 1, BUFFER_SIZE, BUFFER_SIZE + 1, 2 * BUFFER_SIZE + 1,
     100 * BUFFER_SIZE}

InitStream ==
    /\ cmd \in {c \in UploadCmds : ~c.recursive}
    /\ remote \in {R \in RemoteStates : R # {}}
    /\ local \in {LocalFile(n) : n \in StreamSizes}
    /\ order = "fwd"
    /\ lists_self = FALSE
    /\ stack = <<[fn |-> "upload_files", pc |-> "start"]>>
    /\ Fresh

NextStream ==
    \/ upload_files
    \/ upload_files_dispatch
    \/ upload_files_await
    \/ upload_file_streaming_open
    \/ upload_file_streaming_metadata
    \/ upload_file_streaming_writer
    \/ upload_file_streaming_read
    \/ upload_file_streaming_write
    \/ upload_file_streaming_close

SpecStream == InitStream /\ [][NextStream]_vars

InitTransfer == InitDownload \/ InitUpload

NextTransfer == NextDownload \/ NextUpload

SpecTransfer == InitTransfer /\ [][NextTransfer]_vars

\* format_size applied to two sizes.  The sizes are the u64 values whose
\* digits come from SizeDigits (with the examples of the documentation);
\* the second size is the successor of the first or a unit boundary.
SizeDigits == {0, 256, 512, THRESHOLD - 1}
TopDigits == {1, Pow(2, U64_BITS % Bits(THRESHOLD - 1)) - 1, 512, THRESHOLD - 1}
U64_DIGITS == (U64_BITS + Bits(THRESHOLD - 1) - 1) \div Bits(THRESHOLD - 1)

InU64(d) == BitLen(d) <= U64_BITS

RECURSIVE DigitSeqs(_)
DigitSeqs(n) ==
    IF n = 0 THEN {<<>>}
    ELSE {<<x>> \o d : x \in SizeDigits, d \in DigitSeqs(n - 1)}

ExampleSizes == {U64(512), U64(2048), U64(1572864), U64(4446)}

Sizes ==
    {<<>>} \cup ExampleSizes
    \cup {d \in UNION {{Append(l, x) : l \in DigitSeqs(n), x \in TopDigits} :
                            n \in 0..(U64_DIGITS - 1)} : InU64(d)}

\* THRESHOLD^k and THRESHOLD^k - 1
UnitBoundaries ==
    UNION {{[i \in 1..k |-> THRESHOLD - 1],
            [i \in 1..(k + 1) |-> IF i = k + 1 THEN 1 ELSE 0]} :
                k \in 1..(U64_DIGITS - 1)}

Others(n) == {d \in {Inc(n, 1)} : InU64(d)} \cup UnitBoundaries \cup ExampleSizes

InitFormat ==
    /\ \E n \in Sizes : \E m \in Others(n) :
           cmd = [op |-> "format_size", size |-> n, other |-> m]
    /\ Idle

ApplyFormatSize ==
    /\ cmd.op = "format_size"
    /\ result = Running
    /\ result' = Ok(<<format_size(cmd.size), format_size(cmd.other)>>)
    /\ UNCHANGED <<cmd, remote, local, order, lists_self, stack, ret, out, calls, writer, fault>>

NextFormat == ApplyFormatSize

SpecFormat == InitFormat /\ [][NextFormat]_vars

\* The recursive traversals on a backend whose listing of a directory holds
\* the directory itself: recursive list, download and total usage of the
\* remote root.
InitSelfListed ==
    /\ \/ /\ cmd = [op |-> "list_directory", path |-> RemoteRoot,
                    long |-> FALSE, recursive |-> TRUE]
          /\ stack = <<[fn |-> "list_directory", pc |-> "start"]>>
       \/ /\ cmd = [op |-> "disk_usage", path |-> RemoteRoot, summary |-> TRUE]
          /\ stack = <<[fn |-> "disk_usage", pc |-> "start"]>>
       \/ /\ cmd = [op |-> "download_files", path |-> RemoteRoot, local |-> LocalDest]
          /\ stack = <<[fn |-> "download_files", pc |-> "start"]>>
    /\ remote \in {RemoteOf(t) : t \in Trees}
    /\ order \in Orders
    /\ lists_self = TRUE
    /\ local = {}
    /\ Fresh

NextSelfListed ==
    \/ list_directory
    \/ list_recursive_list
    \/ list_recursive_loop
    \/ list_recursive_await
    \/ list_directory_return
    \/ disk_usage
    \/ disk_usage_summary
    \/ calculate_total_usage_list
    \/ calculate_total_usage_loop
    \/ calculate_total_usage_await
    \/ download_files
    \/ download_files_return
    \/ download_recursive_list
    \/ download_recursive_loop
    \/ download_recursive_await
    \/ download_recursive_read
    \/ download_recursive_write

SpecSelfListed == InitSelfListed /\ [][NextSelfListed]_vars

---------------------------------------------------------------------------
(* Properties.                                                             *)

Done == result # Running
Succeeded == Done /\ result.ok
Failed == Done /\ ~result.ok

\* the paths of the printed lines
OutPaths == [i \in 1..Len(out) |-> IF cmd.long THEN out[i].path ELSE out[i]]

\* the keys strictly below a directory key
Below(dir) == {e.path : e \in {f \in remote : f.path # dir /\ StartsWith(f.path, dir)}}

IsDirKey(key) == key # <<>> /\ key[Len(key)] = Sep

\* the key of the directory that holds a key
ParentKey(key) ==
    LET s == Stem(key)
        cut == CHOOSE i \in 0..Len(s) :
                   /\ i = 0 \/ s[i] = Sep
                   /\ \A j \in (i + 1)..Len(s) : s[j] # Sep
    IN  SubSeq(s, 1, cut)

RecursiveListDone ==
    cmd.op = "list_directory" /\ cmd.recursive /\ cmd.path = RemoteRoot /\ Succeeded

\* C1: a recursive listing of a tree prints every entry below the path
\* exactly once, a directory's entry immediately followed by the whole of
\* its subtree (so before each of its descendants and before its next
\* sibling), and siblings in the order the backend returns them.
C1_RecursiveListPreOrder ==
    RecursiveListDone =>
        /\ {OutPaths[i] : i \in 1..Len(out)} = Below(cmd.path)
        /\ Len(out) = Cardinality(Below(cmd.path))
        /\ \A i \in 1..Len(out) :
              IsDirKey(OutPaths[i]) =>
                  {j \in 1..Len(out) : j # i /\ StartsWith(OutPaths[j], OutPaths[i])}
                      = (i + 1)..(i + Cardinality(Below(OutPaths[i])))
        /\ \A i, j \in 1..Len(out) :
              (i < j /\ ParentKey(OutPaths[i]) = ParentKey(OutPaths[j])) =>
                  Rank(order, LastName(OutPaths[i])) < Rank(order, LastName(OutPaths[j]))

\* a finished recursive listing of a tree three levels deep in which a
\* directory with descendants is followed by a sibling
C1_Witness ==
    /\ RecursiveListDone
    /\ \E i \in 1..Len(out) : Len(Components(OutPaths[i])) = 4
    /\ \E i \in 1..Len(out) :
          /\ IsDirKey(OutPaths[i]) /\ Below(OutPaths[i]) # {}
          /\ \E j \in (i + 1)..Len(out) : ParentKey(OutPaths[j]) = ParentKey(OutPaths[i])

\* C4: listing a path that does not exist succeeds and prints nothing,
\* whatever the backend's list call answers for the missing path.
C4_MissingPathListsEmpty ==
    (cmd.op = "list_directory" /\ ~Exists(cmd.path) /\ Done) =>
        IF fault.some /\ fault.v.e # "NotFound"
        THEN result = Err(fault.v.e)
        ELSE result.ok /\ out = <<>>

RECURSIVE SumLen(_)
SumLen(S) ==
    IF S = {} THEN 0
    ELSE LET e == CHOOSE x \in S : TRUE IN e.len + SumLen(S \ {e})

\* the files at every depth below a directory key
FilesBelow(dir) ==
    {e \in remote : e.mode = "FILE" /\ e.path # dir /\ StartsWith(e.path, dir)}

\* C8: the summary's total is the sum of the sizes of all files at every
\* depth below the path and its count is the number of those files, both
\* as returned to disk_usage and as printed.
C8_SummaryTotals ==
    /\ (Fn("disk_usage", "await") /\ ret.ok) =>
           ret.v = <<SumLen(FilesBelow(cmd.path)), Cardinality(FilesBelow(cmd.path))>>
    /\ (cmd.op = "disk_usage" /\ cmd.summary /\ Succeeded) =>
           out = <<[size |-> format_size(U64(SumLen(FilesBelow(cmd.path)))), path |-> cmd.path],
                   [total_files |-> Cardinality(FilesBelow(cmd.path))]>>

\* the summary over files of 100, 250 and 4096 bytes on three levels:
\* 4446 bytes in 3 files, printed as 4.3K
C8_Witness ==
    /\ cmd.op = "disk_usage" /\ cmd.summary /\ Succeeded
    /\ {e.len : e \in FilesBelow(cmd.path)} = {100, 250, 4096}
    /\ \E e \in remote : e.mode = "DIR" /\ Len(Components(e.path)) = 3
    /\ out = <<[size |-> [int |-> 4, frac |-> Some(3), unit |-> "K"], path |-> cmd.path],
               [total_files |-> 3]>>

\* where the layout of the remote tree puts a remote file below the local
\* destination: the key relative to the top-level remote path
MirrorPath(key) ==
    Canon(PathJoin(cmd.local, unwrap_or(strip_prefix(key, cmd.path), key)))

WriteCalls == {k \in 1..Len(calls) : calls[k].call = "fs::write"}

\* C3: a download writes every remote file to the local destination joined
\* with the file's key relative to the top-level remote path, never two
\* different remote files to one local file, and on success every remote
\* file below the path is at that place.
C3_DownloadMirrorsLayout ==
    cmd.op = "download_files" =>
        /\ \A k \in WriteCalls : Canon(calls[k].arg.path) = MirrorPath(calls[k].arg.src)
        /\ \A j, k \in WriteCalls :
              calls[j].arg.src # calls[k].arg.src =>
                  Canon(calls[j].arg.path) # Canon(calls[k].arg.path)
        /\ Succeeded =>
              \A e \in FilesBelow(cmd.path) :
                  \E n \in local :
                      n.mode = "FILE" /\ n.src = e.path /\ n.path = MirrorPath(e.path)

CallsNamed(names) == {k \in 1..Len(calls) : calls[k].call \in names}

BackendCalls == {"list", "exists", "read", "writer", "write", "close"}

\* the name of the uploaded local directory or file
LocalName == unwrap_or(file_name(cmd.local), cmd.local)

RemoteFileKeys == {e.path : e \in {f \in remote : f.mode = "FILE"}}

RecursiveUploadDone ==
    cmd.op = "upload_files" /\ cmd.recursive /\ IsDir(cmd.local) /\ Succeeded

\* C2: after a successful recursive upload the objects written are exactly
\* the keys remote path / name of the local directory / relative path of a
\* local file, for the local files at every depth.
C2_UploadKeysMirrorLocalTree ==
    RecursiveUploadDone =>
        RemoteFileKeys =
            {PathJoin(PathJoin(cmd.remote, LocalName),
                      unwrap_or(strip_prefix(n.path, Canon(cmd.local) \o <<Sep>>), n.path)) :
                 n \in {m \in local : m.mode = "FILE"}}

UploadDone == cmd.op = "upload_files" /\ Done

\* C5: the outcomes of upload_files.  A missing local path fails with its
\* own error whatever the remote state; otherwise a missing remote path
\* fails with its own error and nothing is created; otherwise a file without
\* the recursive flag is written as the one object remote path / file name,
\* a directory with the flag is handed to the recursive uploader, and every
\* other combination fails with a third error and writes nothing.  (The
\* outcome of a run in which a backend or filesystem call fails is that
\* failure; the cases are those of runs without one.)
C5_UploadOutcomes ==
    /\ ErrLocalMissing # ErrRemoteMissing
    /\ ErrLocalMissing # ErrIllegal
    /\ ErrRemoteMissing # ErrIllegal
    /\ UploadDone /\ ~PathExists(cmd.local) => result = Err(ErrLocalMissing) /\ RemoteFileKeys = {}
    /\ UploadDone /\ PathExists(cmd.local) /\ ~fault.some =>
          IF ~Exists(cmd.remote)
          THEN result = Err(ErrRemoteMissing) /\ remote = {}
          ELSE IF IsFile(cmd.local) /\ ~cmd.recursive
          THEN result.ok /\ RemoteFileKeys = {PathJoin(cmd.remote, LocalName)}
          ELSE IF IsDir(cmd.local) /\ cmd.recursive
          THEN result.ok /\ calls[3] = [call |-> "fs::read_dir", arg |-> cmd.local]
          ELSE result = Err(ErrIllegal) /\ RemoteFileKeys = {}
    /\ (\E k \in 1..Len(stack) : stack[k].fn = "upload_recursive") =>
          IsDir(cmd.local) /\ cmd.recursive /\ Exists(cmd.remote)

\* a single file uploaded without the recursive flag
C5_Witness ==
    /\ UploadDone /\ IsFile(cmd.local) /\ ~cmd.recursive /\ result.ok
    /\ RemoteFileKeys = {<<"d", "/", "t">>}

PreconditionFailure ==
    UploadDone /\ ~result.ok /\ result.e \in {ErrLocalMissing, ErrRemoteMissing, ErrIllegal}

NoTransferStarted == CallsNamed({"fs::read_dir", "File::open", "writer"}) = {}

\* C6 as stated: when a pre-condition failure is returned nothing has been
\* read, opened or written, and for a missing local path or an illegal
\* combination no backend call at all has been issued.
C6_NoBackendCallForLocalFailures ==
    PreconditionFailure =>
        /\ NoTransferStarted
        /\ result.e \in {ErrLocalMissing, ErrIllegal} => CallsNamed(BackendCalls) = {}

\* C6 amended: when a pre-condition failure is returned no local directory
\* has been read, no local file opened and no backend writer opened; for a
\* missing local path no backend call at all has been issued; for a missing
\* remote path and for an illegal combination the one backend call issued
\* is the existence check of the remote path.
C6_PreconditionsBeforeTransfer ==
    PreconditionFailure =>
        /\ NoTransferStarted
        /\ result.e = ErrLocalMissing => CallsNamed(BackendCalls) = {}
        /\ result.e \in {ErrRemoteMissing, ErrIllegal} =>
              /\ Cardinality(CallsNamed(BackendCalls)) = 1
              /\ calls[Len(calls)] = [call |-> "exists", arg |-> cmd.remote]

\* the illegal combination, found after the existence check of the remote
C6_Witness ==
    /\ PreconditionFailure /\ result.e = ErrIllegal
    /\ IsDir(cmd.local) /\ ~cmd.recursive

RECURSIVE SumWritten(_)
SumWritten(K) ==
    IF K = {} THEN 0
    ELSE LET k == CHOOSE x \in K : TRUE IN calls[k].arg.len + SumWritten(K \ {k})

Writes == CallsNamed({"write"})

StreamedKey == PathJoin(cmd.remote, LocalName)

StreamDone ==
    cmd.op = "upload_files" /\ IsFile(cmd.local) /\ ~cmd.recursive /\ Succeeded

\* C7: a successful streaming upload of a file of n bytes opens one writer,
\* writes chunks of 1 to 8192 bytes, each at the offset where the previous
\* one ended, that sum to n, closes the writer once, as the last call, reports
\* n bytes and leaves an object of n bytes; an empty file gives no write, no
\* progress line and an object of 0 bytes.
C7_StreamingUpload ==
    StreamDone =>
        LET n == FileSizeOf(cmd.local)
        IN  /\ Cardinality(CallsNamed({"writer"})) = 1
            /\ Cardinality(CallsNamed({"close"})) = 1
            /\ calls[Len(calls)] = [call |-> "close", arg |-> StreamedKey]
            /\ \A k \in Writes :
                  /\ calls[k].arg.len \in 1..BUFFER_SIZE
                  /\ calls[k].arg.off = SumWritten({j \in Writes : j < k})
                  /\ calls[k].arg.path = StreamedKey
            /\ SumWritten(Writes) = n
            /\ out[Len(out)] = [uploaded |-> cmd.local, to |-> StreamedKey, bytes |-> n]
            /\ [path |-> StreamedKey, mode |-> "FILE", len |-> n] \in remote
            /\ n = 0 => Writes = {} /\ Len(out) = 1

\* a file of two buffers and one byte, uploaded in chunks the second of
\* which is a short read
C7_Witness ==
    /\ StreamDone
    /\ FileSizeOf(cmd.local) = 2 * BUFFER_SIZE + 1
    /\ \E k \in Writes : calls[k].arg.len = ShortRead /\ calls[k].arg.off = BUFFER_SIZE

\* a segment-wise prefix: base is a string prefix of full that ends at a
\* separator of full
IsPathPrefix(full, base) ==
    /\ StartsWith(full, base)
    /\ \/ base = <<>>
       \/ Len(full) = Len(base)
       \/ base[Len(base)] = Sep
       \/ full[Len(base) + 1] = Sep

\* the string from its first character that is no separator
NoLeadingSep(s) ==
    LET first == CHOOSE i \in 1..(Len(s) + 1) :
                     /\ i = Len(s) + 1 \/ s[i] # Sep
                     /\ \A j \in 1..(i - 1) : s[j] = Sep
    IN  SubSeq(s, first, Len(s))

LastSegment(s) == LET c == Components(s) IN IF c = <<>> THEN <<>> ELSE c[Len(c)]

\* C9: get_relative_path gives the last segment of full when full = base,
\* the rest of full after base without leading separator when full is
\* below base, and full itself when base does not prefix full by segments.
C9_RelativePath ==
    (cmd.op = "get_relative_path" /\ Done) =>
        /\ result.ok
        /\ result.v =
              IF cmd.full = cmd.base THEN LastSegment(cmd.full)
              ELSE IF IsPathPrefix(cmd.full, cmd.base)
              THEN NoLeadingSep(SubSeq(cmd.full, Len(cmd.base) + 1, Len(cmd.full)))
              ELSE cmd.full

FilePaths(S) == {n.path : n \in {m \in S : m.mode = "FILE"}}

\* C10: once a call of a download or of an upload has failed no further
\* call is issued, nothing is removed or changed on either side, and the
\* command returns that failure; at no step does a file disappear.
C10_FailureAborts ==
    [][/\ fault.some => (calls' = calls /\ remote' = remote /\ local' = local)
       /\ FilePaths(remote) \subseteq FilePaths(remote')
       /\ FilePaths(local) \subseteq FilePaths(local')
       /\ (fault'.some /\ result' # Running) => result' = Err(fault'.v.e)
       /\ (~fault'.some /\ result' # Running /\ ~result'.ok) =>
              result'.e \in {ErrLocalMissing, ErrRemoteMissing, ErrIllegal}]_vars

\* a recursive upload that failed in a write after a file had been
\* uploaded and with a sibling still to come
C10_Witness ==
    /\ cmd.op = "upload_files" /\ Failed
    /\ fault.some /\ fault.v.call = "write"
    /\ RemoteFileKeys # {}
    /\ Cardinality(FilePaths(local)) > Cardinality(RemoteFileKeys) + 1

\* THRESHOLD^k
UnitSize(k) == [i \in 1..(k + 1) |-> IF i = k + 1 THEN 1 ELSE 0]

\* d * THRESHOLD^k
Shift(d, k) == [i \in 1..k |-> 0] \o d

\* the divisions by THRESHOLD the text describes for n >= THRESHOLD: one
\* per unit whose size is at most n, and no more than there are units
\* above B
Divisions(n) ==
    CHOOSE k \in 1..(Len(UNITS) - 1) :
        /\ Leq(UnitSize(k), n)
        /\ k = Len(UNITS) - 1 \/ ~Leq(UnitSize(k + 1), n)

\* f prints n as the text says.  The magnitude is that of the f64 the size
\* is converted to; f is that magnitude to one decimal place when it is at
\* most half a tenth away from it.
Formats(n, f) ==
    IF ~Leq(U64(THRESHOLD), n)
    THEN f = [int |-> Value(n), frac |-> None, unit |-> "B"]
    ELSE LET k == Divisions(n)
             t == f.int * 10 + f.frac.v
             x == MulSmall(as_f64(n), 20, 0)
         IN  /\ f.unit = UNITS[k + 1]
             /\ f.frac.some /\ f.frac.v \in 0..9 /\ f.int >= 1
             /\ Leq(Shift(U64(2 * t - 1), k), x)
             /\ Leq(x, Shift(U64(2 * t + 1), k))

\* the byte quantity a printed size denotes, in tenths of a byte
Denoted(f) ==
    IF f.frac.some
    THEN Shift(U64(f.int * 10 + f.frac.v),
               (CHOOSE i \in 1..Len(UNITS) : UNITS[i] = f.unit) - 1)
    ELSE U64(f.int * 10)

Formatted == cmd.op = "format_size" /\ Done

\* C11: format_size(n) is n followed by "B" when n < 1024; otherwise it is
\* n divided by 1024 once per unit up to the largest unit not above n (at
\* most four times, unit T), rounded to one decimal place, followed by that
\* unit: 512 gives 512B, 2048 gives 2.0K, 1572864 gives 1.5M and 4446 gives
\* 4.3K.  The function is monotonic: n <= m implies that format_size(n)
\* denotes no more bytes than format_size(m).
C11_FormatSize ==
    Formatted =>
        /\ Formats(cmd.size, result.v[1])
        /\ Formats(cmd.other, result.v[2])
        /\ cmd.size = U64(512) =>
               result.v[1] = [int |-> 512, frac |-> None, unit |-> "B"]
        /\ cmd.size = U64(2048) =>
               result.v[1] = [int |-> 2, frac |-> Some(0), unit |-> "K"]
        /\ cmd.size = U64(1572864) =>
               result.v[1] = [int |-> 1, frac |-> Some(5), unit |-> "M"]
        /\ cmd.size = U64(4446) =>
               result.v[1] = [int |-> 4, frac |-> Some(3), unit |-> "K"]
        /\ Leq(cmd.size, cmd.other) =>
               Leq(Denoted(result.v[1]), Denoted(result.v[2]))
        /\ Leq(cmd.other, cmd.size) =>
               Leq(Denoted(result.v[2]), Denoted(result.v[1]))

\* 1048575 and 1048576 are printed in different units, as 1024.0K and 1.0M
C11_Witness ==
    /\ Formatted
    /\ cmd.other = Inc(cmd.size, 1)
    /\ result.v[1] = [int |-> THRESHOLD, frac |-> Some(0), unit |-> "K"]
    /\ result.v[2] = [int |-> 1, frac |-> Some(0), unit |-> "M"]

\* the lines of the detailed usage of a path: one for each entry the path
\* directly holds, in the order the backend lists them
DetailLines(path) ==
    LET children == InOrder({e \in remote : ParentKey(e.path) = path}, order)
    IN  [i \in 1..Len(children) |->
            [size |-> format_size(U64(IF children[i].mode = "DIR"
                                      THEN SumLen(FilesBelow(children[i].path))
                                      ELSE children[i].len)),
             path |-> children[i].path]]

DetailedUsage == cmd.op = "disk_usage" /\ ~cmd.summary

\* C12: disk_usage(path, summary = false) prints exactly one line per
\* immediate child of path, in backend order, and none for a deeper entry:
\* a child directory's line carries the sum of the sizes of all files at
\* every depth below it, a child file's line the file's own size.  (What is
\* printed before a failure is the beginning of those lines.)
C12_DetailedUsageLines ==
    DetailedUsage =>
        /\ Len(out) <= Len(DetailLines(cmd.path))
        /\ out = SubSeq(DetailLines(cmd.path), 1, Len(out))
        /\ Succeeded => out = DetailLines(cmd.path)

\* a child directory with files two and three levels below the path next
\* to a child file: 250 + 4096 bytes are printed as 4.2K, the file as 100B
C12_Witness ==
    /\ DetailedUsage /\ Succeeded
    /\ Len(out) = 2
    /\ \E e \in remote : e.mode = "FILE" /\ Len(Components(e.path)) = 4
    /\ \E i \in 1..2 : /\ IsDirKey(out[i].path)
                       /\ out[i].size = [int |-> 4, frac |-> Some(2), unit |-> "K"]
    /\ \E i \in 1..2 : /\ ~IsDirKey(out[i].path)
                       /\ out[i].size = [int |-> 100, frac |-> None, unit |-> "B"]

\* the frames of the recursive traversals on the call stack
RecursionDepth ==
    Cardinality({i \in 1..Len(stack) :
        stack[i].fn \in {"list_recursive", "download_recursive", "calculate_total_usage"}})

\* the directories on the way from the top of the bucket down to a key
DirLevels(key) == Cardinality({i \in 1..Len(key) : key[i] = Sep})

\* the depth of the remote tree: the levels of its deepest directory
TreeDepth ==
    LET levels == {DirLevels(e.path) : e \in {d \in remote : d.mode = "DIR"}}
    IN  CHOOSE n \in levels : \A m \in levels : m <= n

\* C13: every recursive traversal (recursive list, download, total usage)
\* of a finite remote tree keeps its recursion depth within the depth of
\* the tree, also when the listing of a directory holds an entry of mode
\* DIR for that directory itself.
C13_RecursionWithinTreeDepth == RecursionDepth <= TreeDepth

====
